---- MODULE Spec2Model ----
(***************************************************************************)
(* Model of montecarlo.py: the Parameter class (symmetric limits, lazily   *)
(* generated and validated random variates, hist) and the statistics       *)
(* functions above, below and describe.                                    *)
(*                                                                         *)
(* Numbers are integers.  A float quotient a / b is kept as the reduced    *)
(* fraction [num, den]; a Python exception is kept as the name of the      *)
(* exception in the field exc ("" when nothing was raised).                *)
(***************************************************************************)
EXTENDS Integers, Sequences, FiniteSets

VARIABLES
    lsl, target, usl, name,   \* Parameter attributes set by __init__
    rvs,                      \* Parameter._rvs: Unset until generated or assigned
    tolerance,                \* ghost: the tolerance argument of __init__
    origin,                   \* ghost: "none", "generated" or "assigned"
    draws,                    \* ghost: number of calls of norm.rvs
    lastRead,                 \* ghost: array returned by the last read since the last assignment
    ret,                      \* outcome of the last Parameter operation
    arr, thr,                 \* inputs of the statistics functions
    ppmAbove, ppmBelow, desc  \* results of above, below, describe

pvars == <<lsl, target, usl, name, rvs, tolerance, origin, draws, lastRead, ret>>
svars == <<arr, thr, ppmAbove, ppmBelow, desc>>
vars == <<lsl, target, usl, name, rvs, tolerance, origin, draws, lastRead, ret,
          arr, thr, ppmAbove, ppmBelow, desc>>

(***************************************************************************)
(* Bounds of the model.                                                    *)
(***************************************************************************)
NTrials == 2      \* number of samples per Parameter in the model
MaxVal == 1       \* numbers range over -MaxVal .. MaxVal
MaxDraws == 3     \* cap on the number of norm.rvs calls that are followed
MaxLen == 3       \* longest array handed to the statistics functions

(***************************************************************************)
(* Program constants.                                                      *)
(***************************************************************************)
MILLION == 1000000
TRIALS == NTrials            \* TRIALS = MILLION in the source, scaled down
CP100 == 133                 \* CP = 1.33, in hundredths
LinspaceNum == 1000          \* np.linspace(0, 1000, 1000) of test_above
LinspaceStop == 1000
TestMaximum == 900

Values == (0 - MaxVal)..MaxVal
Names == {"", "Mass"}
Units == {"", "mm"}

(***************************************************************************)
(* Values: arrays, optional numbers, quotients.                            *)
(***************************************************************************)
Unset == [type |-> "unset", data |-> <<>>]
ndarray(d) == [type |-> "ndarray", data |-> d]
list(d) == [type |-> "list", data |-> d]
size(a) == Len(a.data)

SeqsOfLen(n) == [1..n -> Values]
SeqsUpTo(n) == UNION {SeqsOfLen(k) : k \in 0..n}

None == [none |-> TRUE, v |-> 0]
Some(x) == [none |-> FALSE, v |-> x]

RECURSIVE GCD(_, _)
GCD(a, b) == IF b = 0 THEN a ELSE GCD(b, a % b)

NoValue == [exc |-> "not called", num |-> 0, den |-> 1]
\* Python's n / d on non-negative ints
TrueDiv(n, d) ==
    IF d = 0 THEN [exc |-> "ZeroDivisionError", num |-> 0, den |-> 1]
    ELSE LET g == GCD(n, d) IN [exc |-> "", num |-> n \div g, den |-> d \div g]

(***************************************************************************)
(* Parameter                                                               *)
(***************************************************************************)
Min(a, b) == IF a <= b THEN a ELSE b

\* variant of __init__: the upper limit computed like the lower one
ParameterSameSign(t, tol, n) ==
    [lsl |-> t - tol, target |-> t, usl |-> t - tol, name |-> n]

\* Parameter.__init__
Parameter(t, tol, n) ==
    [lsl |-> t - tol, target |-> t, usl |-> t + tol, name |-> n]

\* variant of std: the first distance not taken relative to the target
stdNoTarget(u, t, l) == [num |-> 100 * Min(u, t - l), den |-> 3 * CP100]

\* std = min(self.usl - self.target, self.target - self.lsl) / (3*CP),
\* kept as the quotient num / den (den = 3 * CP * 100 > 0)
std(u, t, l) == [num |-> 100 * Min(u - t, t - l), den |-> 3 * CP100]

\* scipy.stats.norm.rvs(loc, scale, size): the set of possible outcomes.
\* A negative scale is a domain error; scale 0 returns loc * ones(size);
\* otherwise any array of size values can be drawn.
norm_rvs(loc, scale, n) ==
    IF scale.num < 0 THEN {[exc |-> "ValueError", value |-> Unset]}
    ELSE IF scale.num = 0
         THEN {[exc |-> "", value |-> ndarray([i \in 1..n |-> loc])]}
         ELSE {[exc |-> "", value |-> ndarray(d)] : d \in SeqsOfLen(n)}

\* variant of the setter's check: the type is not checked
SetterValidNoType(variates) == size(variates) = TRIALS

\* variant of the setter's check: the size is not checked
SetterValidNoSize(variates) == variates.type = "ndarray"

\* isinstance(variates, np.ndarray) and variates.size == TRIALS
SetterValid(variates) ==
    variates.type = "ndarray" /\ size(variates) = TRIALS

\* variant of the setter: assigns before it validates
rvs_setterAssignFirst(cur, variates) ==
    IF ~SetterValid(variates)
    THEN [exc |-> "ValueError", rvs |-> variates]
    ELSE [exc |-> "", rvs |-> variates]

\* Parameter.rvs setter: outcome and the value of self._rvs afterwards
rvs_setter(cur, variates) ==
    IF ~SetterValid(variates)
    THEN [exc |-> "ValueError", rvs |-> cur]
    ELSE [exc |-> "", rvs |-> variates]

\* variant of the getter's cache test: the cache is never hit
HasRvsNever(cur) == FALSE

\* try: return self._rvs  succeeds
HasRvs(cur) == cur # Unset

\* Parameter.rvs getter: the set of possible outcomes; drawn counts the
\* calls of norm.rvs
rvs_getter(cur, u, t, l) ==
    IF HasRvs(cur)
    THEN {[exc |-> "", value |-> cur, rvs |-> cur, drawn |-> 0]}
    ELSE {IF o.exc # ""
          THEN [exc |-> o.exc, value |-> Unset, rvs |-> cur, drawn |-> 1]
          ELSE LET s == rvs_setter(cur, o.value)
               IN [exc |-> s.exc,
                   value |-> IF s.exc = "" THEN s.rvs ELSE Unset,
                   rvs |-> s.rvs, drawn |-> 1]
          : o \in norm_rvs(t, std(u, t, l), TRIALS)}

\* arrays a caller may assign: ndarrays and lists of 0 .. TRIALS+1 numbers
Variates ==
    {ndarray(d) : d \in SeqsUpTo(TRIALS + 1)} \cup {list(d) : d \in SeqsUpTo(TRIALS + 1)}

NoDesc == [exc |-> "not called", series |-> <<>>, units |-> "", lsl |-> None, usl |-> None]

Init ==
    /\ \E t \in Values, tol \in Values, n \in Names :
         LET p == Parameter(t, tol, n)
         IN /\ lsl = p.lsl
            /\ target = p.target
            /\ usl = p.usl
            /\ name = p.name
            /\ tolerance = tol
    /\ rvs = Unset
    /\ origin = "none"
    /\ draws = 0
    /\ lastRead = Unset
    /\ ret = [op |-> "init", exc |-> "", value |-> Unset, argType |-> "", argSize |-> 0]
    /\ arr = <<>>
    /\ thr = 0
    /\ ppmAbove = NoValue
    /\ ppmBelow = NoValue
    /\ desc = NoDesc

\* p.rvs
GetRvs ==
    /\ HasRvs(rvs) \/ draws < MaxDraws
    /\ \E o \in rvs_getter(rvs, usl, target, lsl) :
         /\ rvs' = o.rvs
         /\ draws' = draws + o.drawn
         /\ origin' = IF o.drawn = 1 /\ o.exc = "" THEN "generated" ELSE origin
         /\ lastRead' = IF o.exc = "" THEN o.value ELSE lastRead
         /\ ret' = [op |-> "get", exc |-> o.exc, value |-> o.value,
                    argType |-> "", argSize |-> 0]
    /\ UNCHANGED <<lsl, target, usl, name, tolerance>>
    /\ UNCHANGED svars

\* p.rvs = variates
SetRvs(variates) ==
    /\ LET s == rvs_setter(rvs, variates)
       IN /\ rvs' = s.rvs
          /\ origin' = IF s.exc = "" THEN "assigned" ELSE origin
          /\ lastRead' = IF s.exc = "" THEN Unset ELSE lastRead
          /\ ret' = [op |-> "set", exc |-> s.exc,
                     value |-> IF s.exc = "" THEN variates ELSE Unset,
                     argType |-> variates.type, argSize |-> size(variates)]
    /\ UNCHANGED <<lsl, target, usl, name, tolerance, draws>>
    /\ UNCHANGED svars

\* variant of hist: reads self._rvs, which does not generate the samples
histNoGenerate ==
    /\ rvs' = rvs
    /\ draws' = draws
    /\ origin' = origin
    /\ ret' = [op |-> "hist", exc |-> IF HasRvs(rvs) THEN "" ELSE "AttributeError",
               value |-> Unset, argType |-> "", argSize |-> 0]
    /\ UNCHANGED <<lsl, target, usl, name, tolerance, lastRead>>
    /\ UNCHANGED svars

\* p.hist(): reads self.rvs, then draws the histogram and the three lines
hist ==
    /\ HasRvs(rvs) \/ draws < MaxDraws
    /\ \E o \in rvs_getter(rvs, usl, target, lsl) :
         /\ rvs' = o.rvs
         /\ draws' = draws + o.drawn
         /\ origin' = IF o.drawn = 1 /\ o.exc = "" THEN "generated" ELSE origin
         /\ ret' = [op |-> "hist", exc |-> o.exc, value |-> Unset,
                    argType |-> "", argSize |-> 0]
    /\ UNCHANGED <<lsl, target, usl, name, tolerance, lastRead>>
    /\ UNCHANGED svars

Next ==
    \/ GetRvs
    \/ \E variates \in Variates : SetRvs(variates)
    \/ hist

Spec == Init /\ [][Next]_vars

(***************************************************************************)
(* Properties of Parameter (checked under Spec)                            *)
(***************************************************************************)

\* C1 as stated: an assignment of an array whose length is not TRIALS fails
\* with a validation error, and an assignment of an array whose length is
\* TRIALS succeeds and stores that array.
C1_LengthAloneDecides ==
    ret.op = "set" =>
        /\ ret.argSize # TRIALS => ret.exc = "ValueError"
        /\ ret.argSize = TRIALS => ret.exc = "" /\ rvs = ret.value

\* C1 amended: an assignment succeeds exactly when the value is an ndarray
\* of TRIALS elements, and fails with ValueError otherwise (wrong size, or a
\* sequence of TRIALS numbers that is not an ndarray); after a successful
\* assignment the array is stored and the next read returns it verbatim.
C1_SetterContract ==
    /\ [](ret.op = "set" =>
            /\ ret.exc \in {"", "ValueError"}
            /\ (ret.exc = "") <=> (ret.argType = "ndarray" /\ ret.argSize = TRIALS)
            /\ ret.exc = "" => rvs = ret.value /\ size(rvs) = ret.argSize)
    /\ [][(ret.op = "set" /\ ret.exc = "" /\ ret'.op = "get")
            => ret'.exc = "" /\ ret'.value = ret.value]_vars

C1_Witness ==
    /\ ret.op = "get" /\ ret.exc = ""
    /\ origin = "assigned" /\ draws = 1
    /\ ret.value = rvs /\ rvs.data[1] # rvs.data[2]

\* C2 as stated: norm.rvs is called at most once per Parameter.
C2_AtMostOneDraw == draws <= 1

\* C2 amended: norm.rvs is called only by a read that finds the samples
\* unset; once the samples are set they stay set, no later read draws again
\* and every later read returns the cached array, so at most one call
\* succeeds; two successive reads with no assignment in between return the
\* same array; and for a Parameter with tolerance >= 0 norm.rvs is called at
\* most once (with a negative tolerance every read calls it and fails).
C2_LazyCached ==
    /\ [](tolerance >= 0 => draws <= 1)
    /\ [][/\ draws' # draws => rvs = Unset /\ ret'.op \in {"get", "hist"}
          /\ rvs # Unset => rvs' # Unset /\ draws' = draws
          /\ (rvs # Unset /\ ret'.op = "get")
                => ret'.exc = "" /\ ret'.value = rvs /\ rvs' = rvs
          /\ (lastRead # Unset /\ ret'.op = "get")
                => ret'.exc = "" /\ ret'.value = lastRead]_vars

C2_Witness ==
    /\ tolerance > 0 /\ draws = 1 /\ origin = "generated"
    /\ ret.op = "get" /\ ret.exc = "" /\ ret.value = rvs /\ lastRead = rvs

\* C3: the sample array is either unset or has exactly TRIALS elements, and
\* a lazily generated array has exactly TRIALS elements.
C3_SizeInvariant ==
    /\ rvs = Unset \/ size(rvs) = TRIALS
    /\ origin = "generated" => rvs # Unset /\ size(rvs) = TRIALS

C3_Witness ==
    /\ origin = "generated" /\ size(rvs) = TRIALS
    /\ ret.op = "set" /\ ret.exc = "ValueError" /\ ret.argSize = TRIALS + 1

\* C6 as stated: lsl <= target <= usl for every target and tolerance,
\* negative tolerances included.
C6_LimitsOrdered == lsl <= target /\ target <= usl

\* C6 amended: lsl = target - tolerance and usl = target + tolerance after
\* any sequence of operations; lsl <= target <= usl holds when the
\* tolerance is >= 0, and a negative tolerance gives usl < target < lsl.
C6_LimitsFromTolerance ==
    /\ lsl = target - tolerance
    /\ usl = target + tolerance
    /\ tolerance >= 0 => lsl <= target /\ target <= usl
    /\ tolerance < 0 => usl < target /\ target < lsl

C6_Witness ==
    /\ tolerance > 0 /\ lsl < target /\ target < usl
    /\ ret.op = "hist" /\ origin = "assigned"

\* C7: with tolerance 0 the derived standard deviation is 0 and the lazily
\* generated array is TRIALS copies of target.
C7_ZeroTolerance ==
    tolerance = 0 =>
        /\ std(usl, target, lsl).num = 0
        /\ origin = "generated" =>
              /\ size(rvs) = TRIALS
              /\ \A i \in 1..TRIALS : rvs.data[i] = target

C7_Witness ==
    /\ tolerance = 0 /\ target < 0
    /\ origin = "generated" /\ ret.op = "get" /\ ret.value = rvs

\* C9 as stated: after hist the samples are set.
C9_HistSetsSamples == ret.op = "hist" => rvs # Unset

\* C9 amended: hist never changes lsl, usl or target; when the samples are
\* set it leaves them as they are and draws nothing; when they are unset it
\* calls norm.rvs once, and the samples are set afterwards if the tolerance
\* is >= 0, while with a negative tolerance the call fails with ValueError
\* and the samples stay unset.
C9_HistFrame ==
    [][ret'.op = "hist" =>
         /\ lsl' = lsl /\ usl' = usl /\ target' = target
         /\ rvs # Unset => rvs' = rvs /\ draws' = draws /\ ret'.exc = ""
         /\ rvs = Unset => draws' = draws + 1
         /\ (rvs = Unset /\ tolerance >= 0) => rvs' # Unset /\ ret'.exc = ""
         /\ (rvs = Unset /\ tolerance < 0) => rvs' = Unset /\ ret'.exc = "ValueError"]_vars

C9_Witness ==
    /\ ret.op = "hist" /\ ret.exc = ""
    /\ origin = "generated" /\ draws = 1 /\ tolerance >= 0 /\ lastRead = Unset

\* C10: a failing assignment changes nothing: the samples (set or unset),
\* lsl, usl, target and name are as before, and the read that follows
\* returns the cached array if there is one and otherwise calls norm.rvs.
C10_FailedSetIsNoOp ==
    [][/\ (ret'.op = "set" /\ ret'.exc # "")
            => /\ rvs' = rvs /\ draws' = draws
               /\ lsl' = lsl /\ usl' = usl /\ target' = target /\ name' = name
       /\ (ret.op = "set" /\ ret.exc # "" /\ ret'.op = "get")
            => IF rvs # Unset
               THEN ret'.exc = "" /\ ret'.value = rvs /\ draws' = draws
               ELSE draws' = draws + 1]_vars

C10_Witness ==
    /\ ret.op = "set" /\ ret.exc = "ValueError" /\ ret.argType = "list"
    /\ rvs # Unset /\ lastRead = rvs

(***************************************************************************)
(* Statistics functions                                                    *)
(***************************************************************************)

\* variant of above: counts the elements equal to the maximum as well
aboveOrEqual(a, maximum) ==
    TrueDiv(MILLION * Len(SelectSeq(a, LAMBDA x : x >= maximum)), Len(a))

\* MILLION * arr[arr > maximum].size / arr.size
above(a, maximum) ==
    TrueDiv(MILLION * Len(SelectSeq(a, LAMBDA x : x > maximum)), Len(a))

\* variant of below: counts the elements equal to the minimum as well
belowOrEqual(a, minimum) ==
    TrueDiv(MILLION * Len(SelectSeq(a, LAMBDA x : x <= minimum)), Len(a))

\* MILLION * arr[arr < minimum].size / arr.size
below(a, minimum) ==
    TrueDiv(MILLION * Len(SelectSeq(a, LAMBDA x : x < minimum)), Len(a))

\* the labels f'Median ({units})', f'ppm below {lsl} {units}', ...
Label(stat, t, units) == [stat |-> stat, thr |-> t, units |-> units]

\* a value computed by numpy (np.median, ndarray.mean, ndarray.std), kept
\* as the call that produces it
LibValue(call) == [call |-> call, exc |-> "", num |-> 0, den |-> 1]
\* a value computed by below or above
PpmValue(call, q) == [call |-> call, exc |-> q.exc, num |-> q.num, den |-> q.den]

\* res[label] = value on a pandas.Series: replaces the entry with that
\* label, or appends a new entry
SeriesSet(series, label, value) ==
    IF \E i \in DOMAIN series : series[i].label = label
    THEN [i \in DOMAIN series |->
            IF series[i].label = label
            THEN [label |-> label, value |-> value] ELSE series[i]]
    ELSE Append(series, [label |-> label, value |-> value])

\* the first three entries of describe
describeHead(units) ==
    LET r1 == SeriesSet(<<>>, Label("Median", None, units), LibValue("np.median(results)"))
        r2 == SeriesSet(r1, Label("Mean", None, units), LibValue("results.mean()"))
    IN SeriesSet(r2, Label("Standard deviation", None, units),
                 LibValue("results.std(ddof=1)"))

\* variant of describe: tests the thresholds for truth (if lsl: / if usl:)
describeTruthy(results, units, l, u) ==
    LET r3 == describeHead(units)
        doBelow == ~l.none /\ l.v # 0
        doAbove == ~u.none /\ u.v # 0
        b == below(results, l.v)
        r4 == IF doBelow THEN SeriesSet(r3, Label("ppm below", l, units), PpmValue("below", b))
              ELSE r3
        a == above(results, u.v)
        r5 == IF doAbove THEN SeriesSet(r4, Label("ppm above", u, units), PpmValue("above", a))
              ELSE r4
    IN IF doBelow /\ b.exc # "" THEN [exc |-> b.exc, series |-> <<>>]
       ELSE IF doAbove /\ a.exc # "" THEN [exc |-> a.exc, series |-> <<>>]
       ELSE [exc |-> "", series |-> r5]

\* describe(results, units, lsl, usl): the exception raised, or the Series
describe(results, units, l, u) ==
    LET r3 == describeHead(units)
        doBelow == ~l.none
        doAbove == ~u.none
        b == below(results, l.v)
        r4 == IF doBelow THEN SeriesSet(r3, Label("ppm below", l, units), PpmValue("below", b))
              ELSE r3
        a == above(results, u.v)
        r5 == IF doAbove THEN SeriesSet(r4, Label("ppm above", u, units), PpmValue("above", a))
              ELSE r4
    IN IF doBelow /\ b.exc # "" THEN [exc |-> b.exc, series |-> <<>>]
       ELSE IF doAbove /\ a.exc # "" THEN [exc |-> a.exc, series |-> <<>>]
       ELSE [exc |-> "", series |-> r5]

\* np.linspace(start, stop, num), in units of 1 / (num - 1)
linspace(start, stop, num) ==
    [i \in 1..num |-> start * (num - 1) + (i - 1) * (stop - start)]

\* the array and the maximum of TestAbove.test_above, in the same units
TestArr == linspace(0, LinspaceStop, LinspaceNum)
TestThr == TestMaximum * (LinspaceNum - 1)

Thresholds == {None} \cup {Some(x) : x \in Values}

StatInit ==
    /\ LET p == Parameter(0, 0, "")
       IN /\ lsl = p.lsl
          /\ target = p.target
          /\ usl = p.usl
          /\ name = p.name
          /\ tolerance = 0
    /\ rvs = Unset
    /\ origin = "none"
    /\ draws = 0
    /\ lastRead = Unset
    /\ ret = [op |-> "init", exc |-> "", value |-> Unset, argType |-> "", argSize |-> 0]
    /\ \/ arr \in SeqsUpTo(MaxLen) /\ thr \in Values
       \/ arr = TestArr /\ thr = TestThr
    /\ ppmAbove = NoValue
    /\ ppmBelow = NoValue
    /\ desc = NoDesc

\* above(arr, thr)
CallAbove ==
    /\ ppmAbove' = above(arr, thr)
    /\ UNCHANGED <<arr, thr, ppmBelow, desc>>
    /\ UNCHANGED pvars

\* below(arr, thr)
CallBelow ==
    /\ ppmBelow' = below(arr, thr)
    /\ UNCHANGED <<arr, thr, ppmAbove, desc>>
    /\ UNCHANGED pvars

\* describe(arr, units, l, u)
CallDescribe(units, l, u) ==
    /\ LET d == describe(arr, units, l, u)
       IN desc' = [exc |-> d.exc, series |-> d.series, units |-> units, lsl |-> l, usl |-> u]
    /\ UNCHANGED <<arr, thr, ppmAbove, ppmBelow>>
    /\ UNCHANGED pvars

StatNext ==
    \/ CallAbove
    \/ CallBelow
    \/ \E units \in Units, l \in Thresholds, u \in Thresholds : CallDescribe(units, l, u)

StatSpec == StatInit /\ [][StatNext]_vars

(***************************************************************************)
(* Properties of the statistics functions (checked under StatSpec)         *)
(***************************************************************************)
InsideRange(a, m) ==
    /\ \E i \in DOMAIN a : a[i] < m
    /\ \E i \in DOMAIN a : a[i] > m

\* C4: for a non-empty array and a threshold strictly inside its range,
\* above + below <= 1,000,000, with equality only when no element equals
\* the threshold.
C4_Complementary ==
    (ppmAbove.exc = "" /\ ppmBelow.exc = "" /\ InsideRange(arr, thr)) =>
        LET sumNum == ppmAbove.num * ppmBelow.den + ppmBelow.num * ppmAbove.den
            sumDen == ppmAbove.den * ppmBelow.den
        IN /\ sumNum <= MILLION * sumDen
           /\ sumNum = MILLION * sumDen => \A i \in DOMAIN arr : arr[i] # thr

C4_Witness ==
    /\ ppmAbove.exc = "" /\ ppmBelow.exc = "" /\ InsideRange(arr, thr)
    /\ \E i \in DOMAIN arr : arr[i] = thr
    /\ ppmAbove.num * ppmBelow.den + ppmBelow.num * ppmAbove.den
         < MILLION * ppmAbove.den * ppmBelow.den

\* C5: for a non-empty array, above is 1,000,000 times the number of
\* elements strictly greater than the threshold divided by the number of
\* elements, below the same with strictly less; above(linspace(0, 1000,
\* 1000), 900) is exactly 100,000.
C5_PpmValues ==
    /\ (ppmAbove.exc # "not called" /\ Len(arr) > 0) =>
          /\ ppmAbove.exc = ""
          /\ ppmAbove.num * Len(arr)
               = MILLION * Cardinality({i \in DOMAIN arr : arr[i] > thr}) * ppmAbove.den
    /\ (ppmBelow.exc # "not called" /\ Len(arr) > 0) =>
          /\ ppmBelow.exc = ""
          /\ ppmBelow.num * Len(arr)
               = MILLION * Cardinality({i \in DOMAIN arr : arr[i] < thr}) * ppmBelow.den
    /\ (ppmAbove.exc # "not called" /\ arr = TestArr /\ thr = TestThr) =>
          ppmAbove = [exc |-> "", num |-> 100000, den |-> 1]

C5_Witness ==
    /\ arr = TestArr /\ thr = TestThr
    /\ ppmAbove = [exc |-> "", num |-> 100000, den |-> 1]
    /\ ppmBelow.exc = ""

Stats(series) == [i \in DOMAIN series |-> series[i].label.stat]
Head3 == <<"Median", "Mean", "Standard deviation">>

\* C8 as stated: describe returns 5 entries when both thresholds are given
\* and 3 when both are None.
C8_AlwaysReturns ==
    desc.exc # "not called" =>
        /\ (~desc.lsl.none /\ ~desc.usl.none) => Len(desc.series) = 5
        /\ (desc.lsl.none /\ desc.usl.none) => Len(desc.series) = 3

\* C8 amended: for a non-empty array (and for an empty one when both
\* thresholds are None) describe returns its entries in the order median,
\* mean, standard deviation, ppm below lsl, ppm above usl: 5 entries when
\* both thresholds are given, the first 3 when both are None, and each
\* threshold entry is present exactly when its threshold is not None (0
\* counts as given); for an empty array with a threshold given it raises
\* ZeroDivisionError and returns nothing.
C8_DescribeEntries ==
    desc.exc # "not called" =>
        /\ (desc.exc = "") <=> (Len(arr) > 0 \/ (desc.lsl.none /\ desc.usl.none))
        /\ desc.exc # "" => desc.exc = "ZeroDivisionError"
        /\ desc.exc = "" =>
             LET st == Stats(desc.series)
                 n == Len(st)
             IN /\ n >= 3 /\ SubSeq(st, 1, 3) = Head3
                /\ (~desc.lsl.none /\ ~desc.usl.none) =>
                      st = Head3 \o <<"ppm below", "ppm above">>
                /\ (desc.lsl.none /\ desc.usl.none) => st = Head3
                /\ (~desc.lsl.none /\ desc.usl.none) => st = Head3 \o <<"ppm below">>
                /\ (desc.lsl.none /\ ~desc.usl.none) => st = Head3 \o <<"ppm above">>
                /\ \A i \in 1..n : desc.series[i].label.units = desc.units
                /\ \A i \in 1..n :
                      /\ st[i] = "ppm below" => desc.series[i].label.thr = desc.lsl
                      /\ st[i] = "ppm above" => desc.series[i].label.thr = desc.usl

C8_Witness ==
    /\ desc.exc = "" /\ Len(arr) > 0
    /\ desc.lsl = Some(0) /\ desc.usl = Some(0)
    /\ Len(desc.series) = 5

====
